---- MODULE Spec2Model ----
(***************************************************************************)
(* A model of olapy's cube configuration loader                            *)
(* (olapy/core/mdx/tools/config_file_parser.py, class ConfigParser) and of *)
(* the install steps at the end of setup.py.                               *)
(*                                                                         *)
(* A YAML document is modelled by the value yaml.load returns for it: a    *)
(* mapping is a function whose DOMAIN is the set of keys present, a list   *)
(* is a sequence.  A Python dict is a function, an OrderedDict a sequence  *)
(* of <<key, value>> pairs with pairwise distinct keys.  An exception is a *)
(* record [kind |-> <exception class>, ...]; a returned Cube is            *)
(* [kind |-> "Cube", cube |-> ...].                                        *)
(***************************************************************************)
EXTENDS Naturals, Sequences, FiniteSets, TLC

VARIABLES
    environ,            \* os.environ: a function from the variables set to their values
    fs,                 \* the files the loader can be pointed at: path -> node
    cube_config_file,   \* ConfigParser.cube_config_file of the instance in use
    ctor_arg,           \* the cube_config_file argument that instance was built with
    open_handles,       \* number of file objects opened by the loader and not closed
    call,               \* the last operation: its arguments and its outcome
    disk,               \* the data directories the installer works on: home -> tree
    run                 \* the last run of the install steps of setup.py

vars == <<environ, fs, cube_config_file, ctor_arg, open_handles, call, disk, run>>

(***************************************************************************)
(* Bounds of the model.                                                    *)
(***************************************************************************)
MaxKeys == 2      \* longest facts.keys.columns_names / facts.keys.refs list
MaxCols == 2      \* most columns declared by one dimension
MaxDims == 1      \* most dimension entries of a document
MaxRuns == 3      \* installer runs counted before the counter saturates

(***************************************************************************)
(* Python values.                                                          *)
(***************************************************************************)
None == "<None>"

\* Python truthiness of an optional path argument: None and '' are falsy.
Truthy(v) == v # None /\ v # ""

Min(a, b) == IF a <= b THEN a ELSE b

Has(d, k) == k \in DOMAIN d

\* zip with its arguments exchanged.
zipSwapped(a, b) == [i \in 1..Min(Len(a), Len(b)) |-> <<b[i], a[i]>>]

\* zip(a, b): stops at the end of the shorter list.
zip(a, b) == [i \in 1..Min(Len(a), Len(b)) |-> <<a[i], b[i]>>]

\* dict(pairs): one entry per distinct key, a later pair replacing an earlier one.
Last(pairs, k) ==
    CHOOSE i \in DOMAIN pairs :
        /\ pairs[i][1] = k
        /\ \A j \in DOMAIN pairs : pairs[j][1] = k => j <= i

dict(pairs) ==
    [k \in {pairs[i][1] : i \in DOMAIN pairs} |-> pairs[Last(pairs, k)][2]]

\* OrderedDict(pairs): keys in order of first insertion; inserting a key that is
\* already there replaces its value and keeps its position.
RECURSIVE OrderedDict(_)
OrderedDict(pairs) ==
    IF pairs = << >> THEN << >>
    ELSE LET n    == Len(pairs)
             acc  == OrderedDict(SubSeq(pairs, 1, n - 1))
             item == pairs[n]
         IN  IF \E i \in DOMAIN acc : acc[i][1] = item[1]
             THEN [i \in DOMAIN acc |->
                      IF acc[i][1] = item[1] THEN item ELSE acc[i]]
             ELSE Append(acc, item)

\* bool(v) of a YAML boolean.
bool(v) == v = TRUE

(***************************************************************************)
(* Paths.  A path is a string; TrailingSep lists the paths of the model    *)
(* that end with the separator.                                            *)
(***************************************************************************)
UserHome == "/home/user"                 \* what expanduser("~") returns
TrailingSep == {"/srv/olapy/"}

\* os.path.join(a, b) for a relative b.
join(a, b) ==
    IF a = "" \/ a \in TrailingSep THEN a \o b ELSE a \o "/" \o b

expanduser == UserHome

\* _get_cube_path without the OLAPY_PATH override.
_get_cube_pathHomeOnly(env) ==
    join(join(join(expanduser, "olapy-data"), "cubes"), "cubes-config.yml")

\* ConfigParser._get_cube_path
_get_cube_path(env) ==
    LET home_directory ==
            IF Has(env, "OLAPY_PATH") THEN env["OLAPY_PATH"] ELSE expanduser
    IN  join(join(join(home_directory, "olapy-data"), "cubes"), "cubes-config.yml")

\* ConfigParser.__init__: the value stored in self.cube_config_file.
__init__(env, arg) ==
    IF Truthy(arg) THEN arg ELSE _get_cube_path(env)

(***************************************************************************)
(* Outcomes of get_cube_config.                                            *)
(***************************************************************************)
KeyError(k)  == [kind |-> "KeyError", key |-> k]
IOError      == [kind |-> "IOError"]
YAMLError    == [kind |-> "YAMLError"]
Ok(v)        == [kind |-> "Ok", value |-> v]

\* Facts(...) built at lines 153-161: the first missing key raises KeyError.
FactsOf(config) ==
    IF ~Has(config, "facts") THEN KeyError("facts")
    ELSE LET f == config["facts"] IN
         IF ~Has(f, "table_name") THEN KeyError("table_name")
         ELSE IF ~Has(f, "keys") THEN KeyError("keys")
         ELSE IF ~Has(f["keys"], "columns_names") THEN KeyError("columns_names")
         ELSE IF ~Has(f["keys"], "refs") THEN KeyError("refs")
         ELSE IF ~Has(f, "measures") THEN KeyError("measures")
         ELSE Ok(<< [table_name |-> f["table_name"],
                     keys       |-> dict(zip(f["keys"]["columns_names"],
                                             f["keys"]["refs"])),
                     measures   |-> f["measures"]] >>)

\* A column pair that ignores column_new_name.
ColumnPairNoRename(column) == <<column["name"], column["name"]>>

\* The (name, display name) pair of one column entry, lines 168-172.
ColumnPair(column) ==
    <<column["name"],
      IF ~Has(column, "column_new_name") THEN column["name"]
      ELSE column["column_new_name"]>>

\* The columns argument of Dimension(...), lines 167-173.
ColumnsOf(d) ==
    IF Has(d, "columns")
    THEN IF \E i \in DOMAIN d["columns"] : ~Has(d["columns"][i], "name")
         THEN KeyError("name")
         ELSE Ok(OrderedDict([i \in DOMAIN d["columns"] |->
                                 ColumnPair(d["columns"][i])]))
    ELSE Ok(<< >>)

\* Dimension(...) of one entry of config['dimensions'], lines 164-173.
DimensionOf(entry) ==
    IF ~Has(entry, "dimension") THEN KeyError("dimension")
    ELSE LET d == entry["dimension"] IN
         IF ~Has(d, "name") THEN KeyError("name")
         ELSE IF ~Has(d, "displayName") THEN KeyError("displayName")
         ELSE IF ColumnsOf(d).kind # "Ok" THEN ColumnsOf(d)
         ELSE Ok([name        |-> d["name"],
                  displayName |-> d["displayName"],
                  columns     |-> ColumnsOf(d).value])

\* The list comprehension of lines 163-175: the first entry that fails ends it.
DimensionsOf(config) ==
    IF ~Has(config, "dimensions") THEN KeyError("dimensions")
    ELSE LET ds  == config["dimensions"]
             bad == {i \in DOMAIN ds : DimensionOf(ds[i]).kind # "Ok"}
         IN  IF bad # {}
             THEN DimensionOf(ds[CHOOSE i \in bad : \A j \in bad : i <= j])
             ELSE Ok([i \in DOMAIN ds |-> DimensionOf(ds[i]).value])

\* Cube(...) with config.get(field) in place of config[field] for name and
\* source: a missing field becomes None.
CubeOfDefaults(config, facts, dimensions) ==
    IF ~Has(config, "xmla_authentication") THEN KeyError("xmla_authentication")
    ELSE [kind |-> "Cube",
          cube |-> [xmla_authentication |-> bool(config["xmla_authentication"]),
                    name       |-> IF Has(config, "name") THEN config["name"] ELSE None,
                    source     |-> IF Has(config, "source") THEN config["source"] ELSE None,
                    facts      |-> facts,
                    dimensions |-> dimensions]]

\* Cube(...) of lines 178-184, evaluated after the with block.
CubeOf(config, facts, dimensions) ==
    IF ~Has(config, "xmla_authentication") THEN KeyError("xmla_authentication")
    ELSE IF ~Has(config, "name") THEN KeyError("name")
    ELSE IF ~Has(config, "source") THEN KeyError("source")
    ELSE [kind |-> "Cube",
          cube |-> [xmla_authentication |-> bool(config["xmla_authentication"]),
                    name       |-> config["name"],
                    source     |-> config["source"],
                    facts      |-> facts,
                    dimensions |-> dimensions]]

(***************************************************************************)
(* get_cube_config, lines 137-184.                                         *)
(***************************************************************************)
TypeError == [kind |-> "TypeError"]

Absent      == [kind |-> "absent"]
Dir         == [kind |-> "dir"]
File(d, r)  == [kind |-> "file", readable |-> r, doc |-> d]

Lookup(fsys, p) == IF p \in DOMAIN fsys THEN fsys[p] ELSE Absent

\* os.path.exists(p) in place of os.path.isfile(p).
exists(fsys, p) == Lookup(fsys, p).kind # "absent"

\* os.path.isfile(p)
isfile(fsys, p) == Lookup(fsys, p).kind = "file"

\* open(p) succeeds on a regular file the process may read.
CanOpen(fsys, p) == Lookup(fsys, p).kind = "file" /\ Lookup(fsys, p).readable

\* open(): one more open file object.
open(handles) == handles + 1

\* A close() at the end of the body in place of the with statement: a body that
\* raises leaves the file object open.
__exit__OnSuccess(handles, body) ==
    IF body.kind = "Ok" THEN handles - 1 ELSE handles

\* Leaving the with block, with the outcome `body` of its body: the file
\* object is closed whether the body returned or raised.
__exit__(handles, body) == handles - 1

\* The path handed to open() when conf_file is ignored.
file_pathInstanceOnly(self_path, conf_file) == self_path

\* Lines 144-147: the path handed to open().
file_path(self_path, conf_file) ==
    IF Truthy(conf_file) THEN conf_file ELSE self_path

\* yaml.load and the body of the with block, lines 151-175: Ok(<<facts,
\* dimensions>>) or the exception that leaves the block.
WithBody(doc) ==
    IF doc.yaml = "malformed" THEN YAMLError
    ELSE IF doc.yaml = "null" THEN TypeError
    ELSE IF FactsOf(doc.config).kind # "Ok" THEN FactsOf(doc.config)
    ELSE IF DimensionsOf(doc.config).kind # "Ok" THEN DimensionsOf(doc.config)
    ELSE Ok(<<FactsOf(doc.config).value, DimensionsOf(doc.config).value>>)

\* What a call get_cube_config(conf_file) does on an instance whose
\* cube_config_file is self_path: the path read, the number of files opened,
\* the open handles afterwards, and the Cube returned or the exception raised.
get_cube_config(self_path, conf_file, fsys, handles) ==
    LET path == file_path(self_path, conf_file) IN
    IF ~CanOpen(fsys, path)
    THEN [file_path |-> path, opened |-> 0, handles |-> handles,
          result |-> IOError]
    ELSE LET doc  == Lookup(fsys, path).doc
             body == WithBody(doc)
         IN  [file_path |-> path,
              opened    |-> 1,
              handles   |-> __exit__(open(handles), body),
              result    |-> IF body.kind # "Ok" THEN body
                            ELSE CubeOf(doc.config, body.value[1], body.value[2])]

(***************************************************************************)
(* The documents of the model.                                             *)
(***************************************************************************)
SeqsUpTo(S, n) == UNION {[1..k -> S] : k \in 0..n}

Restrict(f, S) == [x \in S |-> f[x]]

KeyNames == {"departement_id", "date_id"}
RefNames == {"orgunit.id", "date.id"}
ColNames == {"type", "nom"}

Keys0 == [columns_names |-> <<"departement_id">>, refs |-> <<"orgunit.id">>]

KeysSet ==
    {[columns_names |-> cn, refs |-> rf] :
        cn \in SeqsUpTo(KeyNames, MaxKeys), rf \in SeqsUpTo(RefNames, MaxKeys)}
    \cup {Restrict(Keys0, S) : S \in SUBSET {"columns_names", "refs"}}

FactsFull(k) ==
    [table_name |-> "stats_line", keys |-> k,
     measures |-> <<"montant", "salaire_brut_mensuel">>]

Facts0 == FactsFull(Keys0)

FactsSet ==
    {FactsFull(k) : k \in KeysSet}
    \cup {Restrict(FactsFull(k), {"keys", "measures"}) : k \in KeysSet}
    \cup {Restrict(Facts0, S) : S \in SUBSET {"table_name", "keys", "measures"}}

ColumnEntries ==
    {[name |-> n] : n \in ColNames}
    \cup {[name |-> n, column_new_name |-> "Name"] : n \in ColNames}

Columns0 == <<[name |-> "type"], [name |-> "nom"]>>

\* Column lists with an entry that has no name.
NamelessColumns ==
    {<<[column_new_name |-> "Name"]>>,
     <<[name |-> "type"], [column_new_name |-> "Name"]>>}

DimFull(cols) ==
    [name |-> "orgunit", displayName |-> "Organisation", columns |-> cols]

DimSet ==
    {DimFull(c) : c \in SeqsUpTo(ColumnEntries, MaxCols) \cup NamelessColumns}
    \cup {Restrict(DimFull(Columns0), S) :
            S \in SUBSET {"name", "displayName", "columns"}}

DimLists == SeqsUpTo({[dimension |-> d] : d \in DimSet}, MaxDims)

Dims0 == <<[dimension |-> DimFull(Columns0)]>>

TopFields == {"xmla_authentication", "name", "source", "facts", "dimensions"}

TopFull(x, f, ds) ==
    [xmla_authentication |-> x, name |-> "labster", source |-> "csv",
     facts |-> f, dimensions |-> ds]

\* The document of the spec's end-to-end scenario, and three broken ones.
MismatchedFacts ==
    FactsFull([columns_names |-> <<"departement_id", "date_id">>,
               refs |-> <<"orgunit.id">>])

NamelessDims == <<[dimension |-> Restrict(DimFull(Columns0), {"displayName", "columns"})]>>

Configs ==
    {TopFull(FALSE, f, Dims0) : f \in FactsSet}
    \cup {TopFull(FALSE, Facts0, ds) : ds \in DimLists}
    \cup {TopFull(TRUE, Facts0, Dims0)}
    \cup {Restrict(TopFull(FALSE, f, ds), S) :
            S \in SUBSET TopFields,
            f \in {Facts0, MismatchedFacts, Restrict(Facts0, {"keys", "measures"})},
            ds \in {Dims0, NamelessDims}}

Mapping(c) == [yaml |-> "mapping", config |-> c]
Malformed  == [yaml |-> "malformed"]
Null       == [yaml |-> "null"]

Docs == {Malformed, Null} \cup {Mapping(c) : c \in Configs}

ScenarioA == Mapping(TopFull(FALSE, Facts0, Dims0))
ScenarioC == Mapping(Restrict(TopFull(FALSE, Facts0, Dims0), TopFields \ {"dimensions"}))

\* The documents the environment writes while the loader is in use.
SampleDocs == {ScenarioA, ScenarioC, Malformed}

(***************************************************************************)
(* The loader in use: one ConfigParser instance, the files it may be       *)
(* pointed at, and the process environment it was built in.                *)
(***************************************************************************)
DefaultPath == "/home/user/olapy-data/cubes/cubes-config.yml"

FsPaths   == {"/p1", "/p2", DefaultPath}
CtorArgs  == {None, "", "/p1"}
ConfFiles == {None, "", "/p1", "/p2"}

NoEnv == << >>

LoaderEnvirons ==
    {NoEnv} \cup {"OLAPY_PATH" :> v : v \in {"", "/srv/olapy", "/srv/olapy/"}}

NoDisk == << >>
NoRun  == [op |-> "none"]

\* parser = ConfigParser(arg)
Construct(arg) ==
    /\ cube_config_file' = __init__(environ, arg)
    /\ ctor_arg' = arg
    /\ call' = [op |-> "__init__", arg |-> arg]
    /\ UNCHANGED <<environ, fs, open_handles, disk, run>>

\* parser.config_file_exists()
config_file_exists ==
    /\ call' = [op |-> "config_file_exists",
                path |-> cube_config_file,
                result |-> isfile(fs, cube_config_file)]
    /\ UNCHANGED <<environ, fs, cube_config_file, ctor_arg, open_handles, disk, run>>

\* get_cube_config that keeps the path it read in self.cube_config_file.
GetCubeConfigStoringPath(conf_file) ==
    LET out == get_cube_config(cube_config_file, conf_file, fs, open_handles) IN
    /\ call' = [op |-> "get_cube_config", conf_file |-> conf_file,
                file_path |-> out.file_path, opened |-> out.opened,
                result |-> out.result]
    /\ open_handles' = out.handles
    /\ cube_config_file' = out.file_path
    /\ UNCHANGED <<environ, fs, ctor_arg, disk, run>>

\* parser.get_cube_config(conf_file)
GetCubeConfig(conf_file) ==
    LET out == get_cube_config(cube_config_file, conf_file, fs, open_handles) IN
    /\ call' = [op |-> "get_cube_config", conf_file |-> conf_file,
                file_path |-> out.file_path, opened |-> out.opened,
                result |-> out.result]
    /\ open_handles' = out.handles
    /\ UNCHANGED <<environ, fs, cube_config_file, ctor_arg, disk, run>>

\* The environment writes document d at path p (creating or replacing a file).
WriteFile(p, d) ==
    /\ fs[p].kind # "dir"
    /\ fs' = [fs EXCEPT ![p] = File(d, TRUE)]
    /\ call' = [op |-> "write", path |-> p]
    /\ UNCHANGED <<environ, cube_config_file, ctor_arg, open_handles, disk, run>>

\* The environment removes whatever is at path p.
Remove(p) ==
    /\ fs[p].kind # "absent"
    /\ fs' = [fs EXCEPT ![p] = Absent]
    /\ call' = [op |-> "remove", path |-> p]
    /\ UNCHANGED <<environ, cube_config_file, ctor_arg, open_handles, disk, run>>

\* The environment creates a directory at path p.
Mkdir(p) ==
    /\ fs[p].kind = "absent"
    /\ fs' = [fs EXCEPT ![p] = Dir]
    /\ call' = [op |-> "mkdir", path |-> p]
    /\ UNCHANGED <<environ, cube_config_file, ctor_arg, open_handles, disk, run>>

\* The environment flips the read permission of the file at path p.
Chmod(p) ==
    /\ fs[p].kind = "file"
    /\ fs' = [fs EXCEPT ![p].readable = ~fs[p].readable]
    /\ call' = [op |-> "chmod", path |-> p]
    /\ UNCHANGED <<environ, cube_config_file, ctor_arg, open_handles, disk, run>>

Init ==
    /\ environ \in LoaderEnvirons
    /\ fs = [p \in FsPaths |-> Absent]
    /\ ctor_arg \in CtorArgs
    /\ cube_config_file = __init__(environ, ctor_arg)
    /\ open_handles = 0
    /\ call = [op |-> "__init__", arg |-> ctor_arg]
    /\ disk = NoDisk
    /\ run = NoRun

Next ==
    \/ \E arg \in CtorArgs : Construct(arg)
    \/ config_file_exists
    \/ \E conf_file \in ConfFiles : GetCubeConfig(conf_file)
    \/ \E p \in FsPaths, d \in SampleDocs : WriteFile(p, d)
    \/ \E p \in FsPaths : Remove(p)
    \/ \E p \in FsPaths : Mkdir(p)
    \/ \E p \in FsPaths : Chmod(p)

Spec == Init /\ [][Next]_vars

\* The loader applied to every document of Docs, stored at /p1.
InitDoc ==
    /\ environ = NoEnv
    /\ \E d \in Docs : fs = [p \in FsPaths |-> IF p = "/p1" THEN File(d, TRUE) ELSE Absent]
    /\ ctor_arg = "/p1"
    /\ cube_config_file = __init__(environ, ctor_arg)
    /\ open_handles = 0
    /\ call = [op |-> "__init__", arg |-> ctor_arg]
    /\ disk = NoDisk
    /\ run = NoRun

NextDoc == \E conf_file \in ConfFiles : GetCubeConfig(conf_file)

SpecDoc == InitDoc /\ [][NextDoc]_vars

(***************************************************************************)
(* The install steps of setup.py, lines 86-98.                             *)
(*                                                                         *)
(* disk[h] is what lies under the directory h:                             *)
(*   olapy_data  h/olapy-data is a directory                               *)
(*   cubes       h/olapy-data/cubes is a directory                         *)
(*   templates   the content of cubes_temp.zip is in h/olapy-data/cubes    *)
(*   config      h/olapy-data/olapy-config.xml: "absent", "default" (the   *)
(*               packaged file) or "edited" (anything else)                *)
(***************************************************************************)
ToxHome == "/tmp/tox"

Homes == {UserHome, ToxHome}

NoTree == [olapy_data |-> FALSE, cubes |-> FALSE, templates |-> FALSE,
           config |-> "absent"]

SetupEnvirons ==
    {NoEnv,
     "HOME_DIR" :> ToxHome,
     "RUNNING_TOX" :> "1",
     "RUNNING_TOX" :> "1" @@ "HOME_DIR" :> ToxHome}

\* Line 13.
RUNNING_TOX(env) == Has(env, "RUNNING_TOX")

\* Lines 86-89; os.environ.get gives None for a variable that is not set.
home_directory(env) ==
    IF RUNNING_TOX(env)
    THEN IF Has(env, "HOME_DIR") THEN env["HOME_DIR"] ELSE None
    ELSE expanduser

\* Lines 91-95 on the tree t: the tree afterwards, and whether the archive
\* was extracted.
seed_cubes(t) ==
    IF ~t.cubes
    THEN [tree |-> [t EXCEPT !.olapy_data = TRUE, !.cubes = TRUE, !.templates = TRUE],
          extracted |-> TRUE]
    ELSE [tree |-> t, extracted |-> FALSE]

\* copyfile without the isfile test: the packaged file replaces what is there.
seed_configOverwrite(t) ==
    [tree |-> [t EXCEPT !.config = "default"], copied |-> TRUE]

\* Lines 97-98 on the tree t: the tree afterwards, and whether the packaged
\* file was copied.
seed_config(t) ==
    IF t.config = "absent"
    THEN [tree |-> [t EXCEPT !.config = "default"], copied |-> TRUE]
    ELSE [tree |-> t, copied |-> FALSE]

\* Saturating counter of runs.
Count(n) == IF n < MaxRuns THEN n + 1 ELSE n

\* One run of the install steps (setup() itself has succeeded).
Setup ==
    LET home == home_directory(environ) IN
    IF home = None
    THEN \* os.path.join(None, ...) raises at line 91
         /\ run' = [op |-> "setup", home |-> home, outcome |-> "raised",
                    runs |-> Count(run.runs)]
         /\ UNCHANGED <<environ, fs, cube_config_file, ctor_arg, open_handles,
                        call, disk>>
    ELSE LET t  == disk[home]
             s1 == seed_cubes(t)
             s2 == seed_config(s1.tree)
         IN  /\ disk' = [disk EXCEPT ![home] = s2.tree]
             /\ run' = [op |-> "setup", home |-> home, outcome |-> "done",
                        runs |-> Count(run.runs),
                        before |-> t,
                        extracted |-> s1.extracted,
                        copied |-> s2.copied]
             /\ UNCHANGED <<environ, fs, cube_config_file, ctor_arg,
                            open_handles, call>>

Touched(what, h) == [op |-> what, home |-> h, runs |-> run.runs]

\* The user writes h/olapy-data/olapy-config.xml, or changes it.
EditConfig(h) ==
    /\ disk[h].olapy_data
    /\ disk[h].config # "edited"
    /\ disk' = [disk EXCEPT ![h].config = "edited"]
    /\ run' = Touched("edit", h)
    /\ UNCHANGED <<environ, fs, cube_config_file, ctor_arg, open_handles, call>>

\* The user deletes h/olapy-data/olapy-config.xml.
RemoveConfig(h) ==
    /\ disk[h].config # "absent"
    /\ disk' = [disk EXCEPT ![h].config = "absent"]
    /\ run' = Touched("rm-config", h)
    /\ UNCHANGED <<environ, fs, cube_config_file, ctor_arg, open_handles, call>>

\* The user deletes the example cubes from h/olapy-data/cubes.
RemoveTemplates(h) ==
    /\ disk[h].templates
    /\ disk' = [disk EXCEPT ![h].templates = FALSE]
    /\ run' = Touched("rm-templates", h)
    /\ UNCHANGED <<environ, fs, cube_config_file, ctor_arg, open_handles, call>>

\* The user deletes h/olapy-data/cubes.
RemoveCubes(h) ==
    /\ disk[h].cubes
    /\ disk' = [disk EXCEPT ![h].cubes = FALSE, ![h].templates = FALSE]
    /\ run' = Touched("rm-cubes", h)
    /\ UNCHANGED <<environ, fs, cube_config_file, ctor_arg, open_handles, call>>

\* The user deletes h/olapy-data.
RemoveData(h) ==
    /\ disk[h].olapy_data
    /\ disk' = [disk EXCEPT ![h] = NoTree]
    /\ run' = Touched("rm-data", h)
    /\ UNCHANGED <<environ, fs, cube_config_file, ctor_arg, open_handles, call>>

\* The user creates h/olapy-data by hand.
MakeData(h) ==
    /\ ~disk[h].olapy_data
    /\ disk' = [disk EXCEPT ![h].olapy_data = TRUE]
    /\ run' = Touched("mk-data", h)
    /\ UNCHANGED <<environ, fs, cube_config_file, ctor_arg, open_handles, call>>

InitInstall ==
    /\ environ \in SetupEnvirons
    /\ fs = [p \in FsPaths |-> Absent]
    /\ ctor_arg = None
    /\ cube_config_file = __init__(environ, ctor_arg)
    /\ open_handles = 0
    /\ call = [op |-> "__init__", arg |-> ctor_arg]
    /\ disk = [h \in Homes |-> NoTree]
    /\ run = [op |-> "none", runs |-> 0]

NextInstall ==
    \/ Setup
    \/ \E h \in Homes : EditConfig(h)
    \/ \E h \in Homes : RemoveConfig(h)
    \/ \E h \in Homes : RemoveTemplates(h)
    \/ \E h \in Homes : RemoveCubes(h)
    \/ \E h \in Homes : RemoveData(h)
    \/ \E h \in Homes : MakeData(h)

SpecInstall == InitInstall /\ [][NextInstall]_vars

(***************************************************************************)
(* Properties.                                                             *)
(*                                                                         *)
(* The spec's error taxonomy is read on the exceptions of the code:        *)
(* ConfigNotFoundError is the IOError open() raises, ConfigFormatError any *)
(* exception raised while the document is parsed and its fields are        *)
(* extracted.                                                              *)
(***************************************************************************)
ConfigNotFoundError == {"IOError"}
ConfigFormatError   == {"YAMLError", "TypeError", "KeyError"}

IsLoad   == call.op = "get_cube_config"
Returned == IsLoad /\ call.result.kind = "Cube"

\* The document the last get_cube_config call read (when it opened a file).
DocRead == Lookup(fs, call.file_path).doc

HasBothKeyLists(doc) ==
    /\ doc.yaml = "mapping"
    /\ Has(doc.config, "facts")
    /\ Has(doc.config["facts"], "keys")
    /\ Has(doc.config["facts"]["keys"], "columns_names")
    /\ Has(doc.config["facts"]["keys"], "refs")

MismatchedKeys(doc) ==
    /\ HasBothKeyLists(doc)
    /\ Len(doc.config["facts"]["keys"]["columns_names"])
         # Len(doc.config["facts"]["keys"]["refs"])

\* C1: a call that reads a document whose facts.keys.columns_names and
\* facts.keys.refs differ in length fails with ConfigFormatError and returns
\* no descriptor.
C1_MismatchedKeysFail ==
    (IsLoad /\ call.opened = 1 /\ MismatchedKeys(DocRead))
        => (call.result.kind \in ConfigFormatError /\ ~Has(call.result, "cube"))

OmitsRequired(doc) ==
    /\ doc.yaml = "mapping"
    /\ LET c == doc.config IN
       \/ ~Has(c, "name")
       \/ ~Has(c, "source")
       \/ ~Has(c, "dimensions")
       \/ ~Has(c, "facts")
       \/ ~Has(c["facts"], "table_name")
       \/ \E i \in DOMAIN c["dimensions"] : ~Has(c["dimensions"][i]["dimension"], "name")

\* C2: a call that reads a document omitting a required field (name, source,
\* facts.table_name, a dimension's name, or the dimensions section) fails with
\* ConfigFormatError and returns no descriptor, whatever else the document
\* holds.
C2_MissingFieldFails ==
    (IsLoad /\ call.opened = 1 /\ OmitsRequired(DocRead))
        => (call.result.kind \in ConfigFormatError /\ ~Has(call.result, "cube"))

\* The facts and the dimensions were built, and the missing name is found last.
C2_Witness ==
    /\ IsLoad /\ call.opened = 1
    /\ OmitsRequired(DocRead)
    /\ FactsOf(DocRead.config).kind = "Ok"
    /\ DimensionsOf(DocRead.config).kind = "Ok"
    /\ call.result = KeyError("name")

NotFound ==
    /\ call.result.kind \in ConfigNotFoundError
    /\ call.result.kind \notin ConfigFormatError
    /\ ~Has(call.result, "cube")
    /\ call.opened = 0

\* C3 as stated: the path of a call is the per-call path if one is given, else
\* the instance's path; when no readable file is there, the call fails with
\* ConfigNotFoundError at once and returns no descriptor.
C3_Original ==
    LET path == IF call.conf_file # None THEN call.conf_file ELSE cube_config_file
    IN  (IsLoad /\ ~CanOpen(fs, path)) => NotFound

\* C3 amended: the path of a call is the per-call path if one is given and is
\* not empty, else the instance's path; when no readable file is there, the
\* call fails with ConfigNotFoundError at once and returns no descriptor.
C3_MissingFileFails ==
    LET path == IF call.conf_file \notin {None, ""} THEN call.conf_file
                ELSE cube_config_file
    IN  (IsLoad /\ ~CanOpen(fs, path)) => NotFound

\* The per-call path is missing while the instance's file is there.
C3_Witness ==
    /\ IsLoad
    /\ call.conf_file = "/p2"
    /\ ~CanOpen(fs, "/p2")
    /\ CanOpen(fs, cube_config_file)
    /\ call.result = IOError

Base == IF Has(environ, "OLAPY_PATH") THEN environ["OLAPY_PATH"] ELSE UserHome

DeclaredPairs(cols) ==
    [j \in DOMAIN cols |->
        <<cols[j]["name"],
          IF Has(cols[j], "column_new_name") THEN cols[j]["column_new_name"]
          ELSE cols[j]["name"]>>]

DistinctNames(cols) ==
    \A i, j \in DOMAIN cols : cols[i]["name"] = cols[j]["name"] => i = j

FirstAt(cols, n) ==
    CHOOSE j \in DOMAIN cols :
        cols[j]["name"] = n /\ \A k \in DOMAIN cols : cols[k]["name"] = n => j <= k

LastAt(cols, n) ==
    CHOOSE j \in DOMAIN cols :
        cols[j]["name"] = n /\ \A k \in DOMAIN cols : cols[k]["name"] = n => k <= j

\* C5 as stated: in a returned descriptor the columns mapping of every
\* dimension that declares columns is the sequence of its declared columns, in
\* declaration order, each mapped to its column_new_name if it has one and to
\* its own name otherwise; a dimension without a columns section gets an empty
\* mapping.
C5_Original ==
    Returned =>
        \A i \in DOMAIN DocRead.config["dimensions"] :
            LET d == DocRead.config["dimensions"][i]["dimension"]
                m == call.result.cube.dimensions[i].columns
            IN  IF Has(d, "columns") THEN m = DeclaredPairs(d["columns"])
                ELSE m = << >>

\* C5 amended: the above for every dimension whose declared column names are
\* pairwise distinct.  When a name is declared more than once the mapping has
\* one entry for it, at the place of its first declaration and with the display
\* name of its last declaration.
C5_ColumnsInDeclarationOrder ==
    Returned =>
        \A i \in DOMAIN DocRead.config["dimensions"] :
            LET d == DocRead.config["dimensions"][i]["dimension"]
                m == call.result.cube.dimensions[i].columns
            IN  IF Has(d, "columns")
                THEN LET cols == d["columns"] IN
                     /\ DistinctNames(cols) => m = DeclaredPairs(cols)
                     /\ {m[k][1] : k \in DOMAIN m} = {cols[j]["name"] : j \in DOMAIN cols}
                     /\ \A k1, k2 \in DOMAIN m :
                            k1 < k2 => FirstAt(cols, m[k1][1]) < FirstAt(cols, m[k2][1])
                     /\ \A k \in DOMAIN m :
                            m[k][2] = DeclaredPairs(cols)[LastAt(cols, m[k][1])][2]
                ELSE m = << >>

\* Two columns in other than alphabetical order, the first one renamed.
C5_Witness ==
    /\ Returned
    /\ Len(call.result.cube.dimensions) >= 1
    /\ Has(DocRead.config["dimensions"][1]["dimension"], "columns")
    /\ DocRead.config["dimensions"][1]["dimension"]["columns"]
         = <<[name |-> "type", column_new_name |-> "Name"], [name |-> "nom"]>>
    /\ call.result.cube.dimensions[1].columns
         = <<(<<"type", "Name">>), (<<"nom", "nom">>)>>

\* C6 as stated: when columns_names and refs have the same length n, the keys
\* mapping of a returned descriptor maps columns_names[i] to refs[i] for every
\* i, and has no other key.
C6_Original ==
    Returned =>
        LET cn == DocRead.config["facts"]["keys"]["columns_names"]
            rf == DocRead.config["facts"]["keys"]["refs"]
            m  == call.result.cube.facts[1].keys
        IN  Len(cn) = Len(rf) =>
                /\ DOMAIN m = {cn[i] : i \in DOMAIN cn}
                /\ \A i \in DOMAIN cn : m[cn[i]] = rf[i]

\* C6 amended: ... maps columns_names[i] to refs[i] for every i at which the
\* name occurs for the last time in columns_names (every i, when the names are
\* pairwise distinct), and has no other key.
C6_KeysPairedByPosition ==
    Returned =>
        LET cn == DocRead.config["facts"]["keys"]["columns_names"]
            rf == DocRead.config["facts"]["keys"]["refs"]
            m  == call.result.cube.facts[1].keys
        IN  Len(cn) = Len(rf) =>
                /\ DOMAIN m = {cn[i] : i \in DOMAIN cn}
                /\ \A i \in DOMAIN cn :
                       (\A j \in DOMAIN cn : j > i => cn[j] # cn[i]) => m[cn[i]] = rf[i]

\* Two distinct key columns paired with two distinct references.
C6_Witness ==
    /\ Returned
    /\ DocRead.config["facts"]["keys"]
         = [columns_names |-> <<"date_id", "departement_id">>,
            refs |-> <<"date.id", "orgunit.id">>]
    /\ call.result.cube.facts[1].keys
         = [k \in {"date_id", "departement_id"} |->
               IF k = "date_id" THEN "date.id" ELSE "orgunit.id"]

\* C7: a call of get_cube_config or config_file_exists leaves the instance's
\* cube_config_file as it was, whatever path the call was given and whether it
\* succeeded; a call without a path reads the instance's path, and so does
\* config_file_exists.
C7_PerCallPathNotStored ==
    [][call'.op \in {"get_cube_config", "config_file_exists"} =>
          /\ cube_config_file' = cube_config_file
          /\ ctor_arg' = ctor_arg
          /\ (call'.op = "get_cube_config" /\ call'.conf_file = None)
                => call'.file_path = cube_config_file
          /\ call'.op = "config_file_exists" => call'.path = cube_config_file]_vars

\* A call that was given another path than the instance's, and succeeded.
C7_Witness ==
    /\ Returned
    /\ call.conf_file = "/p2"
    /\ call.file_path = "/p2"
    /\ cube_config_file = "/p1"
    /\ ctor_arg = "/p1"

\* C8: config_file_exists answers TRUE exactly when a regular file is at the
\* instance's path at the time of the call, never fails, and changes neither
\* the files nor the instance.
C8_ExistsIsCurrent ==
    [][call'.op = "config_file_exists" =>
          /\ call'.result \in BOOLEAN
          /\ call'.result = (/\ cube_config_file \in DOMAIN fs
                             /\ fs[cube_config_file].kind = "file")
          /\ UNCHANGED <<environ, fs, cube_config_file, ctor_arg, open_handles>>]_vars

\* The answer is TRUE: every path was absent at first, so the file was written
\* since.
C8_Witness ==
    /\ call.op = "config_file_exists"
    /\ call.result = TRUE
    /\ fs[cube_config_file].kind = "file"

\* C9: a call opens the file at most once, and when it has ended, however it
\* ended, no file object is left open.
C9_HandleReleased ==
    /\ open_handles = 0
    /\ IsLoad => call.opened \in {0, 1}

\* A call that failed inside the with block, while the facts were extracted.
C9_Witness ==
    /\ IsLoad
    /\ call.opened = 1
    /\ call.result = KeyError("table_name")
    /\ open_handles = 0

====
